---- MODULE Spec2Model ----
(***************************************************************************)
(* Resumable chunked upload of app/components/TransferForm.tsx (the second *)
(* TransferForm, with pause/resume) against the transfer routes of the     *)
(* worker (POST /api/transfers, /api/uploads/chunk, /api/transfers/        *)
(* complete, GET /api/transfers/validate/:id).                             *)
(*                                                                         *)
(* React state is modelled as the variables formData, transferId,          *)
(* pausedUploads, ...; a handler reads the values of the render it was     *)
(* created in, so every invocation of handleSubmit / resumeFileUpload      *)
(* keeps the snapshot (cap* fields) it closed over, while setState calls   *)
(* with an updater function apply to the current state.                    *)
(***************************************************************************)
EXTENDS Integers, Sequences, FiniteSets, TLC

\* ---------------------------------------------------------------- constants
CHUNK_SIZE == 5242880
MAX_RETRIES == 3
CONCURRENT_UPLOADS == 4
\* worker: 24 * 60 * 60 * 1000 ms, and the bytes of a GB of calculateExtensionCost
DAY == 86400000
GIGABYTE == 1073741824

\* ------------------------------------------------------------------- bounds
MaxParts == 2
MaxRuns == 1
MaxSubmits == 1
MaxFailures == 4
MaxReloads == 1
\* the scenarios with concurrent invocations, a second submission, a second
\* batch, and the slicing of many sizes
ConcRuns == 2
ConcParts == 3
ReSubmits == 2
SliceParts == 3
BatchParts == CONCURRENT_UPLOADS + 1
\* the worker: files of a transfer, clock steps, concurrent requests, and
\* the credits of the user when the scenario starts
FilesPerTransfer == 2
MaxTicks == 3
MaxRequests == 2
StartCredits == 2
PurchaseKobo == 500
MaxTransfers == 1

Largest(S) == CHOOSE m \in S : \A x \in S : x <= m

Files == {"f1"}
FileOrder == <<"f1">>
Names == {"a.bin", "b.bin"}
FileSizes == {0, 1, MaxParts * CHUNK_SIZE}
PartIds == 1..Largest({MaxParts, ConcParts, SliceParts, BatchParts})
RunIds == 1..Largest({MaxRuns, ConcRuns})
SubIds == 1..Largest({MaxSubmits, ReSubmits})

\* ------------------------------------------------------------ pure helpers
Range(seq) == {seq[i] : i \in 1..Len(seq)}

\* Math.ceil(file.size / CHUNK_SIZE)
Chunks(size) == (size + CHUNK_SIZE - 1) \div CHUNK_SIZE

\* uploadParts.length > 0 ? Math.max(...uploadParts.map(p => p.partNumber)) : 0
MaxPartNumber(parts) ==
  IF parts = <<>> THEN 0
  ELSE CHOOSE m \in Range(parts) : \A x \in Range(parts) : x <= m

RECURSIVE InsertSorted(_, _)
InsertSorted(x, seq) ==
  IF seq = <<>> THEN <<x>>
  ELSE IF x < Head(seq) THEN <<x>> \o seq
  ELSE <<Head(seq)>> \o InsertSorted(x, Tail(seq))

\* variant: the parts stay in the order in which they completed
SortParts_ArrivalOrder(seq) == seq

\* uploadParts.sort((a, b) => a.partNumber - b.partNumber)
RECURSIVE SortParts(_)
SortParts(seq) ==
  IF seq = <<>> THEN <<>> ELSE InsertSorted(Head(seq), SortParts(Tail(seq)))

\* the byte range of part partNumber: start = (partNumber - 1) * CHUNK_SIZE,
\* end = Math.min(start + CHUNK_SIZE, file.size); chunk = file.slice(start, end)
ChunkStart(partNumber) == (partNumber - 1) * CHUNK_SIZE

\* variant: the end of a part is not limited by the file size
ChunkEnd_NoClamp(partNumber, size) == ChunkStart(partNumber) + CHUNK_SIZE

ChunkEnd(partNumber, size) ==
  IF ChunkStart(partNumber) + CHUNK_SIZE < size
  THEN ChunkStart(partNumber) + CHUNK_SIZE ELSE size

\* first part number the task loop looks at: (fileInfo.currentPart || 0) + 1
StartPart(fileInfo) == fileInfo.currentPart + 1

RECURSIVE TasksFrom(_, _, _)
TasksFrom(p, chunks, uploadParts) ==
  IF p > chunks THEN <<>>
  ELSE IF p \in Range(uploadParts) THEN TasksFrom(p + 1, chunks, uploadParts)
  ELSE <<p>> \o TasksFrom(p + 1, chunks, uploadParts)

\* variant: a task for every part, completed or not
UploadTasks_EveryPart(fileInfo, chunks, uploadParts) == TasksFrom(1, chunks, <<>>)

\* the part numbers for which the loop of uploadFileInChunks creates a task
UploadTasks(fileInfo, chunks, uploadParts) ==
  TasksFrom(StartPart(fileInfo), chunks, uploadParts)

\* ---------------------------------------------------------------- records
\* a FileInfo of formData.files; present = FALSE: the id is not in the list
NoFile ==
  [present |-> FALSE, file |-> FALSE, name |-> "", size |-> 0,
   status |-> "pending", uploadId |-> 0, key |-> 0,
   uploadedParts |-> <<>>, currentPart |-> 0, error |-> "none"]

\* handleFileSelect: the FileInfo of a newly selected file
NewFile(name, size) ==
  [NoFile EXCEPT !.present = TRUE, !.file = TRUE, !.name = name, !.size = size]

\* a task of uploadFileInChunks: st is where its uploadChunkWithRetry stands,
\* retry its retryCount, last the reason of its latest rejection
NoPart ==
  [st |-> "none", retry |-> 0, sends |-> 0, fails |-> 0, last |-> "none",
   start |-> 0, end |-> 0]

EmptyForm == [f \in Files |-> NoFile]

\* one invocation of resumeFileUpload, or of the per-file promise of
\* handleSubmit, with the uploadFileInChunks call it makes
FreeRun ==
  [pc |-> "free", file |-> "f1", src |-> "none", sub |-> 0,
   fileInfo |-> NoFile, capTid |-> 0, capPaused |-> FALSE, capForm |-> EmptyForm,
   key |-> 0, uploadId |-> 0, finTid |-> 0,
   chunks |-> 0, uploadParts |-> <<>>, tasks |-> <<>>, batch |-> 1,
   part |-> [p \in PartIds |-> NoPart],
   aborted |-> FALSE, rej |-> "none", result |-> "none",
   validated |-> FALSE]

NoSub == [pc |-> "none", capForm |-> EmptyForm, capTid |-> 0, capPaused |-> {}, tid |-> 0]

NoStorage == [has |-> FALSE, transferId |-> 0, files |-> EmptyForm]

NoTransfer == [status |-> "none", expired |-> FALSE]

\* ------------------------------------------------------- worker: records
ServerTransfers == 1..MaxTransfers
ServerFiles == ServerTransfers \X (1..FilesPerTransfer)
References == {"ref1", "ref2"}
Requests == 1..MaxRequests

\* a row of transfers; status "none": no row with this id
NoTransferRow == [status |-> "none", expires_at |-> 0, created_at |-> 0]

\* a row of files with what the bucket holds for it; row = FALSE: no row;
\* extended_until 0: NULL; upload: the multipart upload of r2_object_key
\* ("open", "completed" or "none"); object: the bucket has the object
NoFileRow ==
  [row |-> FALSE, transfer_id |-> 0, is_managed |-> FALSE, filesize |-> 0,
   extended_until |-> 0, upload |-> "none", object |-> FALSE]

\* a row of transactions for a payment reference
NoTransaction == [status |-> "none", credits |-> 0]

\* a request the worker is processing, between two of its awaits
NoRequest ==
  [pc |-> "idle", fileId |-> <<0, 0>>, days |-> 0, cost |-> 0,
   extended_until |-> 0, transfer_created_at |-> 0, newExpiry |-> 0,
   reference |-> "", credits |-> 0]

\* the reply of the last validate request
NoReply == [transferId |-> 0, code |-> 0, valid |-> FALSE, reason |-> "none"]

\* the worker with an empty database but for one user with some credits;
\* charge: what the payment gateway knows about a reference; credited:
\* history, how often the credits of a reference were added to the balance
NewWorker(credits) ==
  [now |-> 1, ticks |-> 0, nTransfers |-> 0,
   transfers |-> [t \in ServerTransfers |-> NoTransferRow],
   files |-> [f \in ServerFiles |-> NoFileRow],
   credits |-> credits,
   transactions |-> [ref \in References |-> NoTransaction],
   charge |-> [ref \in References |-> "none"],
   credited |-> [ref \in References |-> 0],
   reqs |-> [q \in Requests |-> NoRequest],
   reply |-> NoReply]

VARIABLES
  formData,            \* [Files -> FileInfo]                 (useState formData.files)
  transferId,          \* 0 = ''                              (useState transferId)
  pausedUploads,       \* SUBSET Files                        (useState pausedUploads)
  abortControllers,    \* [Files -> run id or 0]              (abortControllersRef)
  isUploading, uploadComplete, showResumeNotification,
  localStorage,        \* the item naijatransfer_upload_state
  runs,                \* invocations in progress
  subs, nSubs,         \* handleSubmit invocations
  transfers, objects,  \* server: transfers table, completed multipart objects
  failures, reloads,   \* budget counters of the environment
  env,                 \* what the environment may do: concurrent invocations, submissions
  staleIds,            \* history: session ids a failed validation invalidated
  worker               \* the worker's database, bucket, clock and requests in progress

vars ==
  <<formData, transferId, pausedUploads, abortControllers, isUploading,
    uploadComplete, showResumeNotification, localStorage, runs, subs,
    nSubs, transfers, objects, failures, reloads, env, staleIds, worker>>

\* the whole state as one record, so that the steps of a handler compose
Cur ==
  [formData |-> formData, transferId |-> transferId,
   pausedUploads |-> pausedUploads, abortControllers |-> abortControllers,
   isUploading |-> isUploading, uploadComplete |-> uploadComplete,
   showResumeNotification |-> showResumeNotification,
   localStorage |-> localStorage, runs |-> runs,
   subs |-> subs, nSubs |-> nSubs, transfers |-> transfers,
   objects |-> objects, failures |-> failures, reloads |-> reloads, env |-> env,
   staleIds |-> staleIds, worker |-> worker]

Commit(s) ==
  /\ formData' = s.formData
  /\ transferId' = s.transferId
  /\ pausedUploads' = s.pausedUploads
  /\ abortControllers' = s.abortControllers
  /\ isUploading' = s.isUploading
  /\ uploadComplete' = s.uploadComplete
  /\ showResumeNotification' = s.showResumeNotification
  /\ localStorage' = s.localStorage
  /\ runs' = s.runs
  /\ subs' = s.subs
  /\ nSubs' = s.nSubs
  /\ transfers' = s.transfers
  /\ objects' = s.objects
  /\ failures' = s.failures
  /\ reloads' = s.reloads
  /\ env' = s.env
  /\ staleIds' = s.staleIds
  /\ worker' = s.worker

\* the state after the component has mounted on a fresh page, in an
\* environment e, with the files of form already selected
InitClient(e, form) ==
  /\ formData = form
  /\ transferId = 0
  /\ pausedUploads = {}
  /\ abortControllers = [f \in Files |-> 0]
  /\ isUploading = FALSE
  /\ uploadComplete = FALSE
  /\ showResumeNotification = FALSE
  /\ localStorage = NoStorage
  /\ runs = [r \in RunIds |-> FreeRun]
  /\ subs = [k \in SubIds |-> NoSub]
  /\ nSubs = 0
  /\ transfers = [t \in SubIds |-> NoTransfer]
  /\ objects = {}
  /\ failures = 0
  /\ reloads = 0
  /\ env = e
  /\ staleIds = [f \in Files |-> {}]

\* ... and a worker nobody has used yet
InitWith(e, form) == InitClient(e, form) /\ worker = NewWorker(0)

Init == InitWith([slots |-> MaxRuns, submits |-> MaxSubmits], EmptyForm)

\* --------------------------------------------------- setState and storage
\* setFormData(prev => ({...prev, files: prev.files.map(f => f.id === id ? info : f)})),
\* info being the updated copy of the entry
\* (the error text is kept only while the status is error: every place
\* that sets the status to error sets the text too, and nothing reads the
\* text of a file in another status)
Shown(info) == IF info.status # "error" THEN [info EXCEPT !.error = "none"] ELSE info

MapFile(s, f, info) ==
  IF s.formData[f].present THEN [s EXCEPT !.formData[f] = Shown(info)] ELSE s

\* the serialized FileInfo of saveUploadState: every field but the File object
SerializeFile(info) == [info EXCEPT !.file = FALSE]

\* saveUploadState({ transferId, formData })
SaveUploadState(s, tid, form) ==
  [s EXCEPT !.localStorage =
     [has |-> TRUE, transferId |-> tid,
      files |-> [f \in Files |-> SerializeFile(form[f])]]]

\* clearUploadState()
ClearUploadState(s) == [s EXCEPT !.localStorage = NoStorage]

\* updateRealTimeProgress of run r: publishes the run's own uploadParts
UpdateRealTimeProgress(s, r) ==
  LET run == s.runs[r] IN
  MapFile(s, run.file,
          [s.formData[run.file] EXCEPT !.uploadedParts = run.uploadParts,
                               !.currentPart = MaxPartNumber(run.uploadParts),
                               !.status = "uploading"])

\* ------------------------------------------------------- handleSubmit tail
\* Promise.allSettled(uploadPromises) and what follows it, once every
\* per-file promise of submission k has settled
SettleSubmit(s, k) ==
  IF k = 0 \/ s.subs[k].pc # "running"
     \/ \E r \in RunIds : s.runs[r].sub = k /\ s.runs[r].pc # "done"
  THEN s
  ELSE LET done == \E r \in RunIds :
                      s.runs[r].sub = k /\ s.runs[r].result = "finalized"
           s1 == IF done
                 THEN ClearUploadState([s EXCEPT !.uploadComplete = TRUE])
                 ELSE s
       IN [s1 EXCEPT !.isUploading = FALSE, !.subs[k] = [NoSub EXCEPT !.pc = "done"]]

\* the caller of uploadFileInChunks or completeFileUpload once the promise
\* of the invocation has settled: handleSubmit's per-file promise, or
\* resumeFileUpload (whose catch marks the file as error)
Settled(s, r, result, err) ==
  LET run == s.runs[r]
      s1 == [s EXCEPT !.runs[r].pc = "done", !.runs[r].result = result]
      s2 == IF run.src = "resume" /\ result = "rejected"
            THEN MapFile(s1, run.file,
                         [s1.formData[run.file] EXCEPT !.status = "error", !.error = err])
            ELSE s1
  IN SettleSubmit(s2, run.sub)

\* variant: only a pause is rethrown, a cancel is retried like a failure
IsPauseOrCancel_PauseOnly(reason) == reason = "paused"

\* error.message === 'Upload paused' || 'Upload cancelled' (|| name === 'AbortError')
IsPauseOrCancel(reason) == reason \in {"paused", "cancelled"}

\* catch and finally of uploadFileInChunks, for the first rejection of
\* limitConcurrency, then the caller
RunRejected(s, r, reason) ==
  LET run == s.runs[r]
      s1 == [s EXCEPT !.runs[r].rej = reason]
      s2 == IF reason = "paused"
            THEN MapFile(s1, run.file,
                         [s1.formData[run.file] EXCEPT !.status = "paused",
                                              !.uploadedParts = run.uploadParts,
                                              !.currentPart = MaxPartNumber(run.uploadParts)])
            ELSE IF reason = "cancelled" THEN s1
            ELSE MapFile(s1, run.file,
                         [s1.formData[run.file] EXCEPT !.status = "error", !.error = "part"])
      s3 == [s2 EXCEPT !.abortControllers[run.file] = 0]
  IN Settled(s3, r, IF reason \in {"paused", "cancelled"} THEN "null" ELSE "rejected", "part")

\* if (uploadParts.length > 0) completeFileUpload(...): whether the caller
\* finalizes with the parts uploadFileInChunks returned
ShouldFinalize(parts, chunks) == Len(parts) > 0

\* the normal end of uploadFileInChunks (sort, mark completed, finally),
\* then the caller, which sends the finalize request
RunReturned(s, r) ==
  LET run == s.runs[r]
      sorted == SortParts(run.uploadParts)
      s1 == [s EXCEPT !.runs[r].uploadParts = sorted]
      s2 == IF Len(sorted) = run.chunks
            THEN MapFile(s1, run.file, [s1.formData[run.file] EXCEPT !.status = "completed"])
            ELSE s1
      s3 == [s2 EXCEPT !.abortControllers[run.file] = 0]
  IN IF ShouldFinalize(sorted, run.chunks)
     THEN [s3 EXCEPT !.runs[r].pc = "finalize"]
     ELSE Settled(s3, r, "null", "none")

\* variant: one retry more, retryCount <= MAX_RETRIES
CatchPart_OneMoreRetry(part, reason) ==
  IF IsPauseOrCancel(reason) THEN [part EXCEPT !.st = reason, !.last = reason]
  ELSE IF part.retry <= MAX_RETRIES THEN [part EXCEPT !.st = "backoff", !.last = reason]
  ELSE [part EXCEPT !.st = "failed", !.last = reason]

\* the catch of uploadChunkWithRetry: a pause or cancel is rethrown, any
\* other rejection is retried while retryCount < MAX_RETRIES
CatchPart(part, reason) ==
  IF IsPauseOrCancel(reason) THEN [part EXCEPT !.st = reason, !.last = reason]
  ELSE IF part.retry < MAX_RETRIES THEN [part EXCEPT !.st = "backoff", !.last = reason]
  ELSE [part EXCEPT !.st = "failed", !.last = reason]

\* uploadChunkWithRetry(partNumber, chunk, retryCount) up to xhr.send():
\* checkPauseOrAbort reads the pausedUploads of the closure
SendPart(run, p, retryCount) ==
  LET part == [run.part[p] EXCEPT !.retry = retryCount] IN
  IF run.capPaused THEN CatchPart(part, "paused")
  ELSE IF run.aborted THEN CatchPart(part, "cancelled")
  ELSE [part EXCEPT !.st = "flying", !.sends = @ + 1]

\* a task whose promise has rejected, and the reason limitConcurrency sees
Rejected(part) == part.st \in {"paused", "cancelled", "failed"}

\* the tasks of the batch limitConcurrency is awaiting
BatchOf(run) ==
  {run.tasks[i] : i \in run.batch..
     (IF run.batch + CONCURRENT_UPLOADS - 1 < Len(run.tasks)
      THEN run.batch + CONCURRENT_UPLOADS - 1 ELSE Len(run.tasks))}

\* limitConcurrency starts every task of the batch; Promise.all rejects
\* with the first rejection
StartBatch(s, r) ==
  LET run == s.runs[r]
      b == BatchOf(run)
      parts == [p \in PartIds |-> IF p \in b THEN SendPart(run, p, 0) ELSE run.part[p]]
      s1 == [s EXCEPT !.runs[r].part = parts]
      rejected == {p \in b : Rejected(parts[p])}
  IN IF rejected = {} THEN s1
     ELSE RunRejected(s1, r, parts[CHOOSE p \in rejected : \A q \in rejected : p <= q].st)

\* whether uploadFileInChunks of run r is still awaiting limitConcurrency
Live(run) == run.pc = "uploading" /\ run.rej = "none"

\* variant: the batch is awaited with Promise.allSettled, the loop goes on
\* once every task of the batch has settled
BatchProgress_AllSettled(s, r) ==
  LET run == s.runs[r] IN
  IF \E p \in BatchOf(run) : run.part[p].st \notin {"ok", "failed"} THEN s
  ELSE IF run.batch + CONCURRENT_UPLOADS <= Len(run.tasks)
  THEN StartBatch([s EXCEPT !.runs[r].batch = @ + CONCURRENT_UPLOADS], r)
  ELSE s

\* after a task of the batch fulfilled: next batch, or the end of the loop
BatchProgress(s, r) ==
  LET run == s.runs[r] IN
  IF ~ Live(run) \/ \E p \in BatchOf(run) : run.part[p].st # "ok" THEN s
  ELSE IF run.batch + CONCURRENT_UPLOADS <= Len(run.tasks)
  THEN StartBatch([s EXCEPT !.runs[r].batch = @ + CONCURRENT_UPLOADS], r)
  ELSE RunReturned(s, r)

\* uploadFileInChunks(fileInfo, fileData) from its entry to its first await
UploadFileInChunks(s, r) ==
  LET run == s.runs[r]
      fi == run.fileInfo
  IN IF ~ fi.file
     THEN \* fileInfo.file is undefined: file.size throws before anything else
          Settled([s EXCEPT !.runs[r].pc = "uploading"], r, "rejected", "part")
     ELSE LET chunks == Chunks(fi.size)
              tasks == UploadTasks(fi, chunks, fi.uploadedParts)
              s1 == [s EXCEPT !.runs[r].pc = "uploading",
                              !.runs[r].chunks = chunks,
                              !.runs[r].uploadParts = fi.uploadedParts,
                              !.runs[r].tasks = tasks,
                              !.runs[r].batch = 1,
                              !.runs[r].part =
                                 [p \in PartIds |->
                                    IF p \in Range(tasks)
                                    THEN [NoPart EXCEPT !.st = "idle",
                                                        !.start = ChunkStart(p),
                                                        !.end = ChunkEnd(p, fi.size)]
                                    ELSE NoPart],
                              !.abortControllers[run.file] = r]
              s2 == UpdateRealTimeProgress(s1, r)
          IN IF tasks # <<>> THEN StartBatch(s2, r) ELSE RunReturned(s2, r)

\* controller.abort(): every request in flight of the run is aborted and
\* rejects as paused or cancelled
AbortRun(s, r) ==
  IF r = 0 THEN s
  ELSE LET run == s.runs[r]
           hit == {p \in PartIds : run.part[p].st = "flying"}
           reason == IF run.capPaused THEN "paused" ELSE "cancelled"
           parts == [p \in PartIds |->
                       IF p \in hit THEN CatchPart(run.part[p], reason)
                       ELSE run.part[p]]
           s1 == [s EXCEPT !.runs[r].aborted = TRUE, !.runs[r].part = parts]
       IN IF Live(run) /\ \E p \in hit : Rejected(parts[p])
          THEN RunRejected(s1, r, reason) ELSE s1

\* ------------------------------------------------------------------ server
\* GET /api/transfers/validate/:transferId
ValidateTransfer(table, tid) ==
  IF tid \notin DOMAIN table \/ table[tid].status = "none" \/ table[tid].expired
  THEN "invalid"
  ELSE IF table[tid].status = "complete" THEN "invalid"
  ELSE "valid"

\* CreateTransferSchema: filesize is z.number().positive()
CreateAccepts(form) == \A f \in Files : form[f].present => form[f].size > 0

\* POST /api/transfers/complete: complete the multipart upload, then
\* UPDATE transfers SET status = 'complete' WHERE id = transferId
CompleteTransfer(s, f, key, tid) ==
  [s EXCEPT !.objects = @ \cup {<<f, key>>},
            !.transfers = [t \in DOMAIN @ |->
                             IF t = tid THEN [@[t] EXCEPT !.status = "complete"]
                             ELSE @[t]]]

\* ------------------------------------------------------------ bookkeeping
\* whether something of the invocation can still run
Pending(s, r) ==
  \/ s.runs[r].pc \notin {"free", "done"}
  \/ \E p \in PartIds : s.runs[r].part[p].st \in {"flying", "backoff"}
  \/ s.runs[r].sub # 0 /\ s.subs[s.runs[r].sub].pc = "running"

\* invocations of which nothing can run any more are forgotten
Forget(s) ==
  [s EXCEPT !.runs = [r \in RunIds |->
                        IF @[r].pc = "done" /\ ~ Pending(s, r) THEN FreeRun ELSE @[r]]]

\* the slots no invocation occupies, and the one the next invocation takes
FreeSlots(s) == {r \in RunIds : r <= s.env.slots /\ s.runs[r].pc = "free"}
NextSlot(s) == CHOOSE r \in FreeSlots(s) : \A q \in FreeSlots(s) : r <= q

\* a file id is free for a new selection when nothing refers to it
Unreferenced(f) ==
  /\ ~ formData[f].present
  /\ \A r \in RunIds : runs[r].pc = "free" \/ runs[r].file # f
  /\ \A k \in SubIds : subs[k].pc \in {"none", "done"} \/ ~ subs[k].capForm[f].present

\* ------------------------------------------------------------ user: files
\* handleFileSelect
HandleFileSelect(f, size) ==
  /\ ~ uploadComplete
  /\ Unreferenced(f)
  /\ Commit([Cur EXCEPT !.formData[f] = NewFile("a.bin", size)])

\* removeFile (the button is disabled while the file is uploading)
RemoveFile(f) ==
  /\ ~ uploadComplete
  /\ formData[f].present
  /\ formData[f].status # "uploading"
  /\ Commit([Cur EXCEPT !.formData[f] = NoFile])

\* ----------------------------------------------------------- handleSubmit
\* handleSubmit up to the await of POST /api/transfers
HandleSubmit ==
  /\ ~ isUploading
  /\ ~ uploadComplete
  /\ \E f \in Files : formData[f].present
  /\ nSubs < env.submits
  /\ Commit([Forget(Cur) EXCEPT !.isUploading = TRUE,
                        !.nSubs = @ + 1,
                        !.subs[nSubs + 1] =
                           [pc |-> "creating", capForm |-> formData,
                            capTid |-> transferId, capPaused |-> pausedUploads,
                            tid |-> 0]])

\* the request failed: catch (alert) and finally
CreateTransferFail(k) ==
  /\ subs[k].pc = "creating"
  /\ Commit([Cur EXCEPT !.isUploading = FALSE, !.subs[k] = [NoSub EXCEPT !.pc = "done"]])

\* number of files of the form
NumFiles(form) == Cardinality({f \in Files : form[f].present})

RECURSIVE AllocRuns(_, _, _)
AllocRuns(s, k, i) ==
  IF i > Len(FileOrder) THEN s
  ELSE LET f == FileOrder[i]
           sub == s.subs[k]
       IN IF ~ sub.capForm[f].present THEN AllocRuns(s, k, i + 1)
          ELSE AllocRuns(
                 [s EXCEPT
                    !.runs[NextSlot(s)] =
                       [FreeRun EXCEPT !.pc = "starting", !.file = f,
                                       !.src = "submit", !.sub = k,
                                       !.fileInfo = sub.capForm[f],
                                       !.capTid = sub.capTid,
                                       !.capPaused = (f \in sub.capPaused),
                                       !.capForm = sub.capForm,
                                       !.key = sub.tid, !.uploadId = sub.tid,
                                       !.finTid = sub.tid]],
                 k, i + 1)

RECURSIVE StartRuns(_, _, _)
StartRuns(s, k, r) ==
  IF r \notin RunIds THEN s
  ELSE IF s.runs[r].pc = "starting" /\ s.runs[r].sub = k
  THEN StartRuns(UploadFileInChunks(s, r), k, r + 1)
  ELSE StartRuns(s, k, r + 1)

\* handleSubmit from the response of POST /api/transfers to Promise.allSettled
CreateTransferOk(k) ==
  /\ subs[k].pc = "creating"
  /\ CreateAccepts(subs[k].capForm)
  /\ Cardinality(FreeSlots(Forget(Cur))) >= NumFiles(subs[k].capForm)
  /\ LET s0 == [Forget(Cur) EXCEPT !.transfers[k] = [status |-> "pending", expired |-> FALSE],
                           !.subs[k].tid = k, !.subs[k].pc = "running",
                           !.transferId = k,
                           !.formData =
                              [f \in Files |->
                                 IF @[f].present
                                 THEN Shown([@[f] EXCEPT !.uploadId = k, !.key = k,
                                                         !.status = "uploading"])
                                 ELSE @[f]]]
         s1 == SaveUploadState(s0, k, subs[k].capForm)
         s2 == StartRuns(AllocRuns(s1, k, 1), k, 1)
     IN Commit(SettleSubmit(s2, k))

\* ------------------------------------------------------------ part events
\* xhr.upload 'progress'
PartProgress(r, p) ==
  /\ runs[r].part[p].st = "flying"
  /\ IF runs[r].capPaused
     THEN LET part == CatchPart(runs[r].part[p], "paused")
              s1 == [Cur EXCEPT !.runs[r].part[p] = part]
          IN Commit(IF Live(runs[r]) /\ Rejected(part)
                    THEN RunRejected(s1, r, "paused") ELSE s1)
     ELSE Commit(UpdateRealTimeProgress(Cur, r))

\* xhr 'load' with a 2xx status, and the rest of the upload task
PartLoad(r, p) ==
  /\ runs[r].part[p].st = "flying"
  /\ runs[r].key # 0 /\ runs[r].uploadId # 0
  /\ LET s1 == [Cur EXCEPT !.runs[r].part[p].st = "ok",
                           !.runs[r].uploadParts = Append(@, p)]
         s2 == UpdateRealTimeProgress(s1, r)
         s3 == SaveUploadState(s2, runs[r].capTid, runs[r].capForm)
     IN Commit(BatchProgress(s3, r))

\* xhr 'error', or 'load' with another status
PartError(r, p) ==
  /\ runs[r].part[p].st = "flying"
  /\ failures < MaxFailures \/ runs[r].key = 0 \/ runs[r].uploadId = 0
  /\ LET part == CatchPart([runs[r].part[p] EXCEPT !.fails = @ + 1], "neterr")
         s1 == [Cur EXCEPT !.runs[r].part[p] = part,
                           !.failures = IF runs[r].key = 0 \/ runs[r].uploadId = 0
                                        THEN @ ELSE @ + 1]
     IN Commit(IF Live(runs[r]) /\ Rejected(part)
               THEN RunRejected(s1, r, part.st) ELSE s1)

\* the backoff timer of a retry: uploadChunkWithRetry(partNumber, chunk, retryCount + 1)
BackoffElapsed(r, p) ==
  /\ runs[r].part[p].st = "backoff"
  /\ LET part == SendPart(runs[r], p, runs[r].part[p].retry + 1)
         s1 == [Cur EXCEPT !.runs[r].part[p] = part]
     IN Commit(IF Live(runs[r]) /\ Rejected(part)
               THEN RunRejected(s1, r, part.st) ELSE s1)

\* the response of POST /api/transfers/complete
CompleteResponse(r, ok) ==
  /\ runs[r].pc = "finalize"
  /\ ok => runs[r].key # 0 /\ runs[r].uploadId # 0
  /\ IF ok
     THEN Commit(Settled(CompleteTransfer(Cur, runs[r].file, runs[r].key, runs[r].finTid),
                         r, "finalized", "none"))
     ELSE Commit(Settled(Cur, r, "rejected", "finalize"))

\* ---------------------------------------------------------- pause, resume
\* pauseFileUpload
PauseFileUpload(f) ==
  /\ ~ uploadComplete
  /\ formData[f].present
  /\ formData[f].status = "uploading"
  /\ LET s1 == [Cur EXCEPT !.pausedUploads = @ \cup {f}]
         s2 == MapFile(s1, f, [s1.formData[f] EXCEPT !.status = "paused"])
     IN Commit(AbortRun(s2, abortControllers[f]))

\* resumeFileUpload after the validation: re-selection, or the upload
ResumeUpload(s, r) ==
  LET run == s.runs[r]
      f == run.file
  IN IF ~ run.fileInfo.file
     THEN [s EXCEPT !.runs[r].pc = "reselect"]
     ELSE LET s1 == [s EXCEPT !.pausedUploads = @ \ {f},
                              !.runs[r].key = run.fileInfo.key,
                              !.runs[r].uploadId = run.fileInfo.uploadId,
                              !.runs[r].finTid = run.capTid]
              s2 == MapFile(s1, f, [s1.formData[f] EXCEPT !.status = "uploading"])
          IN UploadFileInChunks(s2, r)

\* resumeFileUpload(fileInfo) from its entry to its first await
ResumeEntry(s, r) ==
  LET run == s.runs[r] IN
  IF run.fileInfo.status = "completed" THEN [s EXCEPT !.runs[r].pc = "done"]
  ELSE IF run.capTid # 0 THEN [s EXCEPT !.runs[r].pc = "validating"]
  ELSE ResumeUpload(s, r)

\* resumeFileUpload(fileInfo) called from the render snap: the invocation
\* closes over that render's transferId, pausedUploads and formData
ResumeStart(s, f, snap) ==
  LET s0 == Forget(s)
      r == NextSlot(s0)
      s1 == [s0 EXCEPT
               !.runs[r] = [FreeRun EXCEPT !.pc = "entry", !.file = f,
                                           !.src = "resume",
                                           !.fileInfo = snap.formData[f],
                                           !.capTid = snap.transferId,
                                           !.capPaused = (f \in snap.pausedUploads),
                                           !.capForm = snap.formData]]
  IN ResumeEntry(s1, r)

\* a click on resume / retry / Resume All for file f
ResumeFileUpload(f) ==
  /\ ~ uploadComplete
  /\ formData[f].present
  /\ formData[f].status \in {"paused", "error"}
  /\ FreeSlots(Forget(Cur)) # {}
  /\ Commit(ResumeStart(Cur, f, Cur))

\* formData.files.forEach(file => { if (file.status === 'error') resumeFileUpload(file) })
RECURSIVE ResumeErrored(_, _, _)
ResumeErrored(s, snap, i) ==
  IF i > Len(FileOrder) THEN s
  ELSE LET f == FileOrder[i] IN
       IF snap.formData[f].present /\ snap.formData[f].status = "error"
       THEN ResumeErrored(ResumeStart(s, f, snap), snap, i + 1)
       ELSE ResumeErrored(s, snap, i + 1)

\* the Restore Files button of the resume notification
RestoreFiles ==
  /\ ~ uploadComplete
  /\ showResumeNotification
  /\ Cardinality(FreeSlots(Forget(Cur))) >=
        Cardinality({f \in Files : formData[f].present /\ formData[f].status = "error"})
  /\ Commit([ResumeErrored(Cur, Cur, 1) EXCEPT !.showResumeNotification = FALSE])

\* the response of the validate request of a resume
ValidateResponse(r) ==
  /\ runs[r].pc = "validating"
  /\ LET f == runs[r].file IN
     IF ValidateTransfer(transfers, runs[r].capTid) = "valid"
     THEN Commit(ResumeUpload([Cur EXCEPT !.runs[r].validated = TRUE], r))
     ELSE LET s1 == MapFile(Cur, f, [Cur.formData[f] EXCEPT !.status = "error",
                                                         !.error = "validate"])
              s2 == ClearUploadState([s1 EXCEPT !.transferId = 0,
                                                !.showResumeNotification = FALSE])
          IN Commit([s2 EXCEPT !.runs[r].pc = "done",
                               !.staleIds[f] =
                                  IF formData[f].present /\ formData[f].uploadId # 0
                                  THEN @ \cup {formData[f].uploadId} ELSE @])

\* the validate request threw: alert, return
ValidateError(r) ==
  /\ runs[r].pc = "validating"
  /\ Commit([Cur EXCEPT !.runs[r].pc = "done"])

\* variant: only the name of the selected file is compared
SameFile_NameOnly(fileInfo, name, size) == name = fileInfo.name

\* selectedFile.name === fileInfo.name && selectedFile.size === fileInfo.size
SameFile(fileInfo, name, size) == name = fileInfo.name /\ size = fileInfo.size

\* promptFileReselection: onchange with a selected file
FileReselected(r, name, size) ==
  /\ runs[r].pc = "reselect"
  /\ LET f == runs[r].file IN
     IF SameFile(runs[r].fileInfo, name, size)
     THEN Commit([MapFile(Cur, f, [Cur.formData[f] EXCEPT !.file = TRUE,
                                                       !.status = "paused",
                                                       !.error = "none"])
                    EXCEPT !.runs[r].pc = "timer", !.runs[r].fileInfo.file = TRUE])
     ELSE Commit([MapFile(Cur, f, [Cur.formData[f] EXCEPT !.status = "error",
                                                       !.error = "wrongfile"])
                    EXCEPT !.runs[r].pc = "done"])

\* promptFileReselection: oncancel
ReselectCancelled(r) ==
  /\ runs[r].pc = "reselect"
  /\ Commit([MapFile(Cur, runs[r].file,
                     [Cur.formData[runs[r].file] EXCEPT !.status = "error", !.error = "nocontent"])
               EXCEPT !.runs[r].pc = "done"])

\* setTimeout(() => resumeFileUpload(updatedFileInfo), 100)
ResumeTimer(r) ==
  /\ runs[r].pc = "timer"
  /\ Commit(ResumeEntry(Cur, r))

\* ------------------------------------------------- cancel, reset, reload
RECURSIVE AbortAll(_, _)
\* abortControllersRef.current.forEach(controller => controller.abort())
AbortAll(s, i) ==
  IF i > Len(FileOrder) THEN s
  ELSE AbortAll(AbortRun(s, s.abortControllers[FileOrder[i]]), i + 1)

\* the Cancel All button
CancelAll ==
  /\ isUploading
  /\ ~ uploadComplete
  /\ Commit(AbortAll(ClearUploadState([Cur EXCEPT !.isUploading = FALSE]), 1))

\* resetForm
ResetFormState(s) ==
  LET s1 == ClearUploadState([s EXCEPT !.formData = EmptyForm,
                                       !.uploadComplete = FALSE,
                                       !.transferId = 0,
                                       !.pausedUploads = {}])
  IN [AbortAll(s1, 1) EXCEPT !.abortControllers = [f \in Files |-> 0]]

\* the Send Another Transfer button
ResetForm ==
  /\ uploadComplete
  /\ Commit(ResetFormState(Cur))

\* the Start Fresh button of the resume notification
StartFresh ==
  /\ ~ uploadComplete
  /\ showResumeNotification
  /\ Commit([ResetFormState(Cur) EXCEPT !.showResumeNotification = FALSE])

\* the mount effect: a saved state with an incomplete file is restored with
\* every incomplete file marked as error
HasIncompleteFiles(store) ==
  store.has /\ \E f \in Files : store.files[f].present /\ store.files[f].status # "completed"

RestoredFile(info) ==
  IF ~ info.present THEN info
  ELSE IF info.status = "completed" THEN [info EXCEPT !.error = "none"]
  ELSE [info EXCEPT !.status = "error", !.error = "reselect"]

\* a page reload: every handler, request and timer is gone, the component
\* mounts again
Reload ==
  /\ reloads < MaxReloads
  /\ LET restore == HasIncompleteFiles(localStorage) IN
     Commit([Cur EXCEPT
        !.reloads = @ + 1,
        !.runs = [r \in RunIds |-> FreeRun],
        !.subs = [k \in SubIds |-> IF @[k].pc = "none" THEN @[k]
                                   ELSE [NoSub EXCEPT !.pc = "done"]],
        !.formData = IF restore
                     THEN [f \in Files |-> RestoredFile(localStorage.files[f])]
                     ELSE EmptyForm,
        !.transferId = IF restore THEN localStorage.transferId ELSE 0,
        !.showResumeNotification = restore,
        !.pausedUploads = {},
        !.abortControllers = [f \in Files |-> 0],
        !.isUploading = FALSE,
        !.uploadComplete = FALSE])

\* the transfer passes its expires_at
Expire(t) ==
  /\ transfers[t].status # "none"
  /\ ~ transfers[t].expired
  /\ \A u \in SubIds : u < t /\ transfers[u].status # "none" => transfers[u].expired
  /\ Commit([Cur EXCEPT !.transfers[t].expired = TRUE])

Next ==
  \/ \E f \in Files, size \in FileSizes : HandleFileSelect(f, size)
  \/ \E f \in Files : RemoveFile(f)
  \/ HandleSubmit
  \/ \E k \in SubIds : CreateTransferFail(k)
  \/ \E k \in SubIds : CreateTransferOk(k)
  \/ \E r \in RunIds, p \in PartIds : PartProgress(r, p)
  \/ \E r \in RunIds, p \in PartIds : PartLoad(r, p)
  \/ \E r \in RunIds, p \in PartIds : PartError(r, p)
  \/ \E r \in RunIds, p \in PartIds : BackoffElapsed(r, p)
  \/ \E r \in RunIds, ok \in BOOLEAN : CompleteResponse(r, ok)
  \/ \E f \in Files : PauseFileUpload(f)
  \/ \E f \in Files : ResumeFileUpload(f)
  \/ RestoreFiles
  \/ \E r \in RunIds : ValidateResponse(r)
  \/ \E r \in RunIds : ValidateError(r)
  \/ \E r \in RunIds, name \in Names, size \in FileSizes : FileReselected(r, name, size)
  \/ \E r \in RunIds : ReselectCancelled(r)
  \/ \E r \in RunIds : ResumeTimer(r)
  \/ CancelAll
  \/ ResetForm
  \/ StartFresh
  \/ Reload
  \/ \E t \in SubIds : Expire(t)

Spec == Init /\ [][Next]_vars

\* ================================================================== worker
\* The routes and the cron job of the worker act on its database and
\* bucket; a step between two awaits of a handler is atomic.
client ==
  <<formData, transferId, pausedUploads, abortControllers, isUploading,
    uploadComplete, showResumeNotification, localStorage, runs, subs,
    nSubs, transfers, objects, failures, reloads, env, staleIds>>

WorkerStep(w) == worker' = w /\ UNCHANGED client

\* the amounts by which Date.now() advances between two steps
TimeSteps == {1, DAY}

Tick(d) ==
  /\ worker.ticks < MaxTicks
  /\ WorkerStep([worker EXCEPT !.now = @ + d, !.ticks = @ + 1])

\* POST /api/transfers: a transfer row that expires in 24 hours, and for
\* every file a multipart upload and a file row (managed for a signed-in user)
PostTransfers(managed) ==
  /\ worker.nTransfers < MaxTransfers
  /\ LET t == worker.nTransfers + 1 IN
     WorkerStep([worker EXCEPT
        !.nTransfers = t,
        !.transfers[t] = [status |-> "pending",
                          expires_at |-> worker.now + DAY,
                          created_at |-> worker.now],
        !.files = [f \in ServerFiles |->
                     IF f[1] = t
                     THEN [row |-> TRUE, transfer_id |-> t, is_managed |-> managed,
                           filesize |-> GIGABYTE, extended_until |-> 0,
                           upload |-> "open", object |-> FALSE]
                     ELSE @[f]]])

\* variant: a transfer is still valid at the instant it expires
ValidateReply_AtExpiry(table, tid, now, dbFails) ==
  IF dbFails
  THEN [code |-> 500, valid |-> FALSE, reason |-> "Server error during validation"]
  ELSE IF ~ (/\ tid \in DOMAIN table
             /\ table[tid].status # "none"
             /\ table[tid].expires_at >= now)
  THEN [code |-> 200, valid |-> FALSE, reason |-> "Transfer not found or expired"]
  ELSE IF table[tid].status = "complete"
  THEN [code |-> 200, valid |-> FALSE, reason |-> "Transfer already completed"]
  ELSE [code |-> 200, valid |-> TRUE, reason |-> "none"]

\* GET /api/transfers/validate/:transferId:
\* SELECT * FROM transfers WHERE id = ? AND expires_at > now, then the status
ValidateReply(table, tid, now, dbFails) ==
  IF dbFails
  THEN [code |-> 500, valid |-> FALSE, reason |-> "Server error during validation"]
  ELSE IF ~ (/\ tid \in DOMAIN table
             /\ table[tid].status # "none"
             /\ table[tid].expires_at > now)
  THEN [code |-> 200, valid |-> FALSE, reason |-> "Transfer not found or expired"]
  ELSE IF table[tid].status = "complete"
  THEN [code |-> 200, valid |-> FALSE, reason |-> "Transfer already completed"]
  ELSE [code |-> 200, valid |-> TRUE, reason |-> "none"]

GetValidate(tid, dbFails) ==
  LET reply == ValidateReply(worker.transfers, tid, worker.now, dbFails) IN
  WorkerStep([worker EXCEPT
     !.reply = [transferId |-> tid, code |-> reply.code,
                valid |-> reply.valid, reason |-> reply.reason]])

\* POST /api/transfers/complete for file f of transfer tid:
\* multipartUpload.complete(parts) (which throws unless the upload is open),
\* then UPDATE transfers SET status = 'complete' WHERE id = tid
PostComplete(tid, f) ==
  /\ f[1] = tid
  /\ IF worker.files[f].upload = "open"
     THEN WorkerStep([worker EXCEPT
             !.files[f].upload = "completed",
             !.files[f].object = TRUE,
             !.transfers[tid].status = IF @ = "none" THEN @ ELSE "complete"])
     ELSE WorkerStep(worker)

\* FILE_BUCKET.delete(r2_object_key) and DELETE FROM files for one row
DeletedFile(file) == [NoFileRow EXCEPT !.upload = file.upload]

\* cleanupTransfer / cleanupIncompleteTransfer for the transfers of T:
\* the objects and the rows of all their files, then the transfer rows
CleanupTransfers(w, T) ==
  [w EXCEPT
     !.files = [f \in ServerFiles |->
                  IF @[f].row /\ @[f].transfer_id \in T THEN DeletedFile(@[f]) ELSE @[f]],
     !.transfers = [t \in ServerTransfers |-> IF t \in T THEN NoTransferRow ELSE @[t]]]

\* the transfers the cron job selects: expires_at < now AND status = ?
ExpiredTransfers(w, status) ==
  {t \in ServerTransfers : w.transfers[t].status = status /\ w.transfers[t].expires_at < w.now}

\* the managed files the cron job selects (LEFT JOIN transfers):
\* extended_until < now, or never extended and created_at + 86400000 < now
ExpiredManagedFiles(w) ==
  {f \in ServerFiles :
     /\ w.files[f].row /\ w.files[f].is_managed
     /\ \/ w.files[f].extended_until # 0 /\ w.files[f].extended_until < w.now
        \/ /\ w.files[f].extended_until = 0
           /\ w.transfers[w.files[f].transfer_id].status # "none"
           /\ w.transfers[w.files[f].transfer_id].created_at + DAY < w.now}

\* scheduled(): the three clean-ups, one after the other
Scheduled ==
  LET w1 == CleanupTransfers(worker, ExpiredTransfers(worker, "complete"))
      w2 == CleanupTransfers(w1, ExpiredTransfers(w1, "pending"))
      gone == ExpiredManagedFiles(w2)
      w3 == [w2 EXCEPT !.files = [f \in ServerFiles |->
                                    IF f \in gone THEN DeletedFile(@[f]) ELSE @[f]]]
  IN WorkerStep(w3)

\* --------------------------------------------------------- file extension
\* calculateExtensionCost: Math.ceil(fileSizeGB * days * costPerGBPerDay),
\* with fileSizeGB = fileSizeBytes / 1024^3 and 2 credits per GB per day;
\* whole gigabytes and the rest are multiplied apart to stay within 32 bits
CalculateExtensionCost(fileSizeBytes, days) ==
  LET rest == (fileSizeBytes % GIGABYTE) * days * 2 IN
  (fileSizeBytes \div GIGABYTE) * days * 2
    + (rest \div GIGABYTE) + (IF rest % GIGABYTE = 0 THEN 0 ELSE 1)

\* the days a request asks for (ExtendFileSchema: 1..365)
ExtendDays == {1}

\* POST /api/files/extend up to the await of SELECT credits: the file row
\* joined with its transfer, and the cost
PostExtend(q, f, days) ==
  /\ worker.reqs[q].pc = "idle"
  /\ IF worker.files[f].row /\ worker.files[f].is_managed
     THEN WorkerStep([worker EXCEPT
            !.reqs[q] =
               [NoRequest EXCEPT
                  !.pc = "user", !.fileId = f, !.days = days,
                  !.cost = CalculateExtensionCost(worker.files[f].filesize, days),
                  !.extended_until = worker.files[f].extended_until,
                  !.transfer_created_at =
                     worker.transfers[worker.files[f].transfer_id].created_at]])
     ELSE WorkerStep(worker)

\* ... the balance is read and compared, the new expiry is computed:
\* Math.max(extended_until || created_at + 24 h, Date.now()) + days * 24 h
ExtendCheckCredits(q) ==
  /\ worker.reqs[q].pc = "user"
  /\ LET req == worker.reqs[q]
         currentExpiry == IF req.extended_until # 0 THEN req.extended_until
                          ELSE req.transfer_created_at + DAY
         newExpiry == (IF currentExpiry > worker.now THEN currentExpiry ELSE worker.now)
                        + req.days * DAY
     IN IF worker.credits < req.cost
        THEN WorkerStep([worker EXCEPT !.reqs[q] = NoRequest])
        ELSE WorkerStep([worker EXCEPT !.reqs[q].pc = "deduct",
                                       !.reqs[q].newExpiry = newExpiry])

\* ... UPDATE users SET credits = credits - ?
ExtendDeduct(q) ==
  /\ worker.reqs[q].pc = "deduct"
  /\ WorkerStep([worker EXCEPT !.credits = @ - worker.reqs[q].cost,
                               !.reqs[q].pc = "file"])

\* ... UPDATE files SET extended_until = ? WHERE id = ?, and the two
\* history rows
ExtendUpdateFile(q) ==
  /\ worker.reqs[q].pc = "file"
  /\ LET f == worker.reqs[q].fileId IN
     WorkerStep([worker EXCEPT
        !.files[f].extended_until = IF worker.files[f].row
                                    THEN worker.reqs[q].newExpiry ELSE @,
        !.reqs[q] = NoRequest])

\* ---------------------------------------------------------------- payments
\* POST /api/payments/initialize: a pending transaction of amount / 100 credits
PaymentInitialize(reference, amount) ==
  /\ worker.transactions[reference].status = "none"
  /\ WorkerStep([worker EXCEPT
        !.transactions[reference] = [status |-> "pending", credits |-> amount \div 100]])

\* the customer pays, or fails to pay, at the payment gateway
Charge(reference, result) ==
  /\ worker.transactions[reference].status # "none"
  /\ worker.charge[reference] = "none"
  /\ WorkerStep([worker EXCEPT !.charge[reference] = result])

\* POST /api/payments/verify (manual verification) up to the fetch of
\* the gateway
PostVerify(q, reference) ==
  /\ worker.reqs[q].pc = "idle"
  /\ WorkerStep([worker EXCEPT
        !.reqs[q] = [NoRequest EXCEPT !.pc = "paystack", !.reference = reference]])

\* POST /api/webhooks/paystack with a charge.success event: a verify
\* request for the reference of the event
PostWebhook(q, reference) ==
  /\ worker.charge[reference] = "success"
  /\ PostVerify(q, reference)

\* verify: the gateway has answered; a payment that did not succeed marks
\* the transaction as failed
VerifyPaystack(q) ==
  /\ worker.reqs[q].pc = "paystack"
  /\ LET reference == worker.reqs[q].reference IN
     IF worker.charge[reference] = "success"
     THEN WorkerStep([worker EXCEPT !.reqs[q].pc = "select"])
     ELSE WorkerStep([worker EXCEPT
            !.transactions[reference].status = IF @ = "none" THEN @ ELSE "failed",
            !.reqs[q] = NoRequest])

\* verify: SELECT * FROM transactions WHERE reference = ?, and the test
\* that it is not processed yet
VerifySelect(q) ==
  /\ worker.reqs[q].pc = "select"
  /\ LET transaction == worker.transactions[worker.reqs[q].reference] IN
     IF transaction.status \in {"none", "success"}
     THEN WorkerStep([worker EXCEPT !.reqs[q] = NoRequest])
     ELSE WorkerStep([worker EXCEPT !.reqs[q].pc = "update",
                                    !.reqs[q].credits = transaction.credits])

\* verify: UPDATE transactions SET status = 'success' (and the payment row)
VerifyUpdate(q) ==
  /\ worker.reqs[q].pc = "update"
  /\ WorkerStep([worker EXCEPT
        !.transactions[worker.reqs[q].reference].status = "success",
        !.reqs[q].pc = "credit"])

\* verify: UPDATE users SET credits = credits + transaction.credits
VerifyCredit(q) ==
  /\ worker.reqs[q].pc = "credit"
  /\ WorkerStep([worker EXCEPT
        !.credits = @ + worker.reqs[q].credits,
        !.credited[worker.reqs[q].reference] = @ + 1,
        !.reqs[q] = NoRequest])

InitPayments ==
  /\ InitClient([slots |-> 0, submits |-> 0], EmptyForm)
  /\ worker = NewWorker(0)

NextPayments ==
  \/ \E reference \in References : PaymentInitialize(reference, PurchaseKobo)
  \/ \E reference \in References, result \in {"success", "failed"} : Charge(reference, result)
  \/ \E q \in Requests, reference \in References : PostVerify(q, reference)
  \/ \E q \in Requests, reference \in References : PostWebhook(q, reference)
  \/ \E q \in Requests : VerifyPaystack(q)
  \/ \E q \in Requests : VerifySelect(q)
  \/ \E q \in Requests : VerifyUpdate(q)
  \/ \E q \in Requests : VerifyCredit(q)

SpecPayments == InitPayments /\ [][NextPayments]_vars

\* one signed-in user with StartCredits credits extends managed files
InitExtend ==
  /\ InitClient([slots |-> 0, submits |-> 0], EmptyForm)
  /\ worker = NewWorker(StartCredits)

NextExtend ==
  \/ PostTransfers(TRUE)
  \/ \E t \in ServerTransfers, f \in ServerFiles : PostComplete(t, f)
  \/ \E q \in Requests, f \in ServerFiles, days \in ExtendDays : PostExtend(q, f, days)
  \/ \E q \in Requests : ExtendCheckCredits(q)
  \/ \E q \in Requests : ExtendDeduct(q)
  \/ \E q \in Requests : ExtendUpdateFile(q)

SpecExtend == InitExtend /\ [][NextExtend]_vars

\* ------------------------------------------------------- transfers, cron
InitWorker ==
  /\ InitClient([slots |-> 0, submits |-> 0], EmptyForm)
  /\ worker = NewWorker(StartCredits)

NextWorker ==
  \/ \E d \in TimeSteps : Tick(d)
  \/ \E managed \in BOOLEAN : PostTransfers(managed)
  \/ \E t \in ServerTransfers, dbFails \in BOOLEAN : GetValidate(t, dbFails)
  \/ \E t \in ServerTransfers, f \in ServerFiles : PostComplete(t, f)
  \/ \E q \in Requests, f \in ServerFiles, days \in ExtendDays : PostExtend(q, f, days)
  \/ \E q \in Requests : ExtendCheckCredits(q)
  \/ \E q \in Requests : ExtendDeduct(q)
  \/ \E q \in Requests : ExtendUpdateFile(q)
  \/ Scheduled

SpecWorker == InitWorker /\ [][NextWorker]_vars

\* ------------------------------------------------ concurrent invocations
\* one file of ConcParts parts, and a retry while requests of the failed
\* invocation are still in flight
InitConc == InitWith([slots |-> ConcRuns, submits |-> 1], EmptyForm)

NextConc ==
  \/ \E f \in Files : HandleFileSelect(f, ConcParts * CHUNK_SIZE)
  \/ HandleSubmit
  \/ \E k \in SubIds : CreateTransferOk(k)
  \/ \E r \in RunIds, p \in PartIds : PartLoad(r, p)
  \/ \E r \in RunIds : PartError(r, 1)
  \/ \E r \in RunIds : BackoffElapsed(r, 1)
  \/ \E r \in RunIds, ok \in BOOLEAN : CompleteResponse(r, ok)
  \/ \E f \in Files : ResumeFileUpload(f)
  \/ \E r \in RunIds : ValidateResponse(r)

SpecConc == InitConc /\ [][NextConc]_vars

\* ------------------------------------------------------- a second batch
\* one file of BatchParts parts: limitConcurrency runs two batches
InitBatch == InitWith([slots |-> MaxRuns, submits |-> 1], EmptyForm)

NextBatch ==
  \/ \E f \in Files : HandleFileSelect(f, BatchParts * CHUNK_SIZE)
  \/ HandleSubmit
  \/ \E k \in SubIds : CreateTransferOk(k)
  \/ \E r \in RunIds, p \in PartIds : PartLoad(r, p)
  \/ \E r \in RunIds, p \in PartIds : PartError(r, p)
  \/ \E r \in RunIds, p \in PartIds : BackoffElapsed(r, p)
  \/ \E r \in RunIds, ok \in BOOLEAN : CompleteResponse(r, ok)

SpecBatch == InitBatch /\ [][NextBatch]_vars

\* ---------------------------------------------------------------- slicing
\* One file whose size is drawn from the sizes around the multiples of
\* CHUNK_SIZE, submitted once; every part succeeds.
SliceSizes ==
  {0} \cup {k * CHUNK_SIZE + d : k \in 0..(SliceParts - 1), d \in {1, CHUNK_SIZE - 1, CHUNK_SIZE}}

InitSlice ==
  \E size \in SliceSizes :
    InitWith([slots |-> MaxRuns, submits |-> 1],
             [EmptyForm EXCEPT ![FileOrder[1]] = NewFile("a.bin", size)])

NextSlice ==
  \/ HandleSubmit
  \/ \E k \in SubIds : CreateTransferOk(k)
  \/ \E k \in SubIds : CreateTransferFail(k)
  \/ \E r \in RunIds, p \in PartIds : PartLoad(r, p)
  \/ \E r \in RunIds, ok \in BOOLEAN : CompleteResponse(r, ok)

SpecSlice == InitSlice /\ [][NextSlice]_vars

\* ------------------------------------------------------- submitting again
\* One file of MaxParts parts; after a pause the invocation of the first
\* submission returns, isUploading is false again and the form can be
\* submitted a second time.
InitResubmit == InitWith([slots |-> MaxRuns, submits |-> ReSubmits], EmptyForm)

NextResubmit ==
  \/ \E f \in Files : HandleFileSelect(f, MaxParts * CHUNK_SIZE)
  \/ HandleSubmit
  \/ \E k \in SubIds : CreateTransferOk(k)
  \/ \E r \in RunIds, p \in PartIds : PartLoad(r, p)
  \/ \E r \in RunIds, p \in PartIds : PartError(r, p)
  \/ \E r \in RunIds, p \in PartIds : BackoffElapsed(r, p)
  \/ \E f \in Files : PauseFileUpload(f)
  \/ \E r \in RunIds, ok \in BOOLEAN : CompleteResponse(r, ok)

SpecResubmit == InitResubmit /\ [][NextResubmit]_vars

\* --------------------------------------------------------- pause, resume
\* One file of MaxParts parts, submitted once, paused, failed and resumed.
InitResume == InitWith([slots |-> MaxRuns, submits |-> 1], EmptyForm)

NextResume ==
  \/ \E f \in Files : HandleFileSelect(f, MaxParts * CHUNK_SIZE)
  \/ HandleSubmit
  \/ \E k \in SubIds : CreateTransferOk(k)
  \/ \E r \in RunIds, p \in PartIds : PartLoad(r, p)
  \/ \E r \in RunIds, p \in PartIds : PartError(r, p)
  \/ \E r \in RunIds, p \in PartIds : BackoffElapsed(r, p)
  \/ \E r \in RunIds, ok \in BOOLEAN : CompleteResponse(r, ok)
  \/ \E f \in Files : PauseFileUpload(f)
  \/ \E f \in Files : ResumeFileUpload(f)
  \/ \E r \in RunIds : ValidateResponse(r)

SpecResume == InitResume /\ [][NextResume]_vars

\* ================================================================== claims

\* C1: for a file with N parts no finalize request (POST
\* /api/transfers/complete) is issued, by handleSubmit or by a resume,
\* while the parts it carries are fewer than N distinct part numbers.
C1_FinalizeOnlyWithAllParts ==
  \A r \in RunIds :
    runs[r].pc = "finalize" =>
      Cardinality(Range(runs[r].uploadParts)) = runs[r].chunks

\* C2: a resume of a file whose completed parts are S creates upload tasks
\* for exactly {1..N} \ S, also when S has gaps.
C2_ResumeDispatchesRemaining ==
  \A r \in RunIds :
    (runs[r].src = "resume" /\ runs[r].pc \in {"uploading", "finalize"}) =>
      Range(runs[r].tasks) =
        (1..runs[r].chunks) \ Range(runs[r].fileInfo.uploadedParts)

\* C3: in every state a file's status is completed if and only if its
\* completed parts are as many as the file has parts and the finalize call
\* for the file has succeeded.
C3_CompletedIffFinalized ==
  \A f \in Files :
    formData[f].present =>
      (formData[f].status = "completed" <=>
         /\ Len(formData[f].uploadedParts) = Chunks(formData[f].size)
         /\ <<f, formData[f].key>> \in objects)

\* C4: a pause of a file whose status is uploading sets the status to
\* paused, leaves no part request of the file in flight, and leaves the
\* file's completed parts as they were.
C4_PauseAbortsInFlight ==
  [][\A f \in Files :
       PauseFileUpload(f) =>
         /\ formData'[f].status = "paused"
         /\ \A r \in RunIds, p \in PartIds :
              runs'[r].file = f => runs'[r].part[p].st # "flying"
         /\ formData'[f].uploadedParts = formData[f].uploadedParts]_vars

\* C5: once the validate call of a resume has answered valid = false, the
\* file's uploadId and key are cleared: the file no longer holds a session
\* id that a validation has invalidated.
C5_InvalidSessionCleared ==
  \A f \in Files :
    formData[f].present =>
      formData[f].uploadId \notin staleIds[f] /\ formData[f].key \notin staleIds[f]

\* C6: every resume that sends upload-part requests with a previously
\* assigned uploadId/key has, within that resume, received valid = true
\* from the validate call.
C6_ResumeValidatesFirst ==
  \A r \in RunIds :
    (/\ runs[r].src = "resume"
     /\ runs[r].uploadId # 0
     /\ \E p \in PartIds : runs[r].part[p].sends > 0)
      => runs[r].validated

\* C7: completed is terminal: a file whose status is completed keeps that
\* status in every step of the page, unless the step removes the file from
\* the form (removeFile, resetForm); a reload of the page is not counted.
C7_CompletedIsTerminal ==
  [][\A f \in Files :
       (formData[f].present /\ formData[f].status = "completed" /\ reloads' = reloads) =>
         (~ formData'[f].present \/ formData'[f].status = "completed")]_vars

\* C8: when a resume of a paused or errored file, with the file content in
\* memory, gets valid = true from the validate call, the file's status
\* becomes uploading and a request is sent for every part the resume has
\* still to upload.
C8_ValidResumeUploads ==
  [][\A r \in RunIds :
       (/\ ValidateResponse(r)
        /\ ValidateTransfer(transfers, runs[r].capTid) = "valid"
        /\ runs[r].fileInfo.file
        /\ formData[runs[r].file].present
        /\ formData[runs[r].file].status \in {"paused", "error"})
         => /\ formData'[runs[r].file].status \in {"uploading", "completed"}
            /\ \A p \in Range(runs'[r].tasks) : runs'[r].part[p].st = "flying"]_vars

\* C9: within one invocation a part is sent at most 4 times; the file's
\* status becomes error because of a part only in a step in which a part
\* fails for the 4th time, each time for a reason other than pause or
\* cancel; a part that has succeeded has failed fewer than 4 times and is
\* never that part.
C9_RetryBound ==
  [][/\ \A r \in RunIds, p \in PartIds :
          /\ runs'[r].part[p].sends <= 4
          /\ runs'[r].part[p].st = "ok" => runs'[r].part[p].fails < 4
     /\ \A f \in Files :
          (/\ formData'[f].present
           /\ formData'[f].status = "error" /\ formData'[f].error = "part"
           /\ ~ (formData[f].status = "error" /\ formData[f].error = "part"))
            => \E r \in RunIds, p \in PartIds :
                 /\ runs[r].file = f /\ runs'[r].file = f
                 /\ runs[r].part[p].st = "flying"
                 /\ runs'[r].part[p].st = "failed"
                 /\ runs'[r].part[p].last = "neterr"
                 /\ runs'[r].part[p].fails = 4
                 /\ runs'[r].part[p].sends = 4]_vars

\* a part has failed 4 times and the file is in error because of it
C9_Witness ==
  \E r \in RunIds, p \in PartIds :
    /\ runs[r].part[p].st = "failed"
    /\ runs[r].part[p].sends = 4
    /\ formData[runs[r].file].present
    /\ formData[runs[r].file].status = "error"
    /\ formData[runs[r].file].error = "part"

\* C10: a part upload ended by a pause or cancel, in flight or in backoff,
\* stays ended for the rest of its invocation (no retry, no further
\* request), and the step that ends it neither sets the file's status to
\* error nor changes its error message.
C10_PauseCancelNotAnError ==
  [][\A r \in RunIds, p \in PartIds :
       LET f == runs[r].file
           ended == runs[r].part[p].last \in {"paused", "cancelled"}
           ends == /\ runs'[r].part[p].last \in {"paused", "cancelled"}
                   /\ runs[r].part[p].st \in {"flying", "backoff"}
       IN /\ ended =>
               /\ runs[r].part[p].st = runs[r].part[p].last
               /\ \/ runs'[r].part[p] = runs[r].part[p]
                  \/ ~ Pending(Cur, r)
                  \/ runs' = [q \in RunIds |-> FreeRun]
          /\ (ends /\ formData[f].present /\ formData'[f].present) =>
               /\ formData'[f].status = "error" => formData[f].status = "error"
               /\ formData'[f].error = formData[f].error]_vars

\* a pause or cancel has ended one part in flight and another after its
\* backoff, and the file is not in error
C10_Witness ==
  \E r \in RunIds, p, q \in PartIds :
    /\ runs[r].part[p].st \in {"paused", "cancelled"}
    /\ runs[r].part[p].sends = runs[r].part[p].retry + 1
    /\ runs[r].part[q].st \in {"paused", "cancelled"}
    /\ runs[r].part[q].retry > 0
    /\ runs[r].part[q].sends = runs[r].part[q].retry
    /\ formData[runs[r].file].present
    /\ formData[runs[r].file].status # "error"

\* C11: at every moment at most 4 part-upload requests are in flight for
\* any one file, over all its invocations.
C11_AtMostFourInFlight ==
  \A f \in Files :
    Cardinality({rp \in RunIds \X PartIds :
                   /\ runs[rp[1]].pc # "free"
                   /\ runs[rp[1]].file = f
                   /\ runs[rp[1]].part[rp[2]].st = "flying"}) <= 4

\* C12: once a part of an invocation has failed permanently, no task of
\* that invocation that had not been started is started: a task that is
\* idle when the failure is raised, or after it, stays idle.
C12_NoDispatchAfterHardFailure ==
  [][\A r \in RunIds, p \in PartIds :
       (/\ runs[r].rej = "failed" \/ (runs[r].rej = "none" /\ runs'[r].rej = "failed")
        /\ Pending(Cur, r)
        /\ runs[r].part[p].st = "idle")
         => runs'[r].part[p].st = "idle"]_vars

\* a part of the first batch has failed permanently, the others of the
\* batch have finished, and the task of the second batch is not started
C12_Witness ==
  \E r \in RunIds :
    /\ runs[r].rej = "failed"
    /\ Len(runs[r].tasks) > CONCURRENT_UPLOADS
    /\ \A p \in 1..CONCURRENT_UPLOADS : runs[r].part[p].st \in {"ok", "failed"}
    /\ \E p \in 1..CONCURRENT_UPLOADS : runs[r].part[p].st = "ok"
    /\ runs[r].part[CONCURRENT_UPLOADS + 1].st = "idle"

\* C13: a hard part failure is surfaced (the invocation rejects and the
\* file's status is set to error) only when no part request of that
\* invocation is in flight any more.
C13_FailureSurfacedAfterSettle ==
  [][\A r \in RunIds :
       (runs[r].rej = "none" /\ runs'[r].rej = "failed") =>
         \A p \in PartIds : runs'[r].part[p].st # "flying"]_vars

\* C14: a part-upload success delivered while the file's status is paused
\* is discarded: it adds nothing to the file's completed parts and leaves
\* the status paused.
C14_LateSuccessDiscarded ==
  [][\A r \in RunIds, p \in PartIds :
       (/\ PartLoad(r, p)
        /\ formData[runs[r].file].present
        /\ formData[runs[r].file].status = "paused")
         => /\ formData'[runs[r].file].uploadedParts = formData[runs[r].file].uploadedParts
            /\ formData'[runs[r].file].status = "paused"]_vars

\* C15: in every state each part number occurs at most once in a file's
\* completed parts: in the form, in the list every invocation keeps and
\* sends to finalize, and in the stored snapshot.
C15_NoDuplicateParts ==
  /\ \A f \in Files :
       /\ Cardinality(Range(formData[f].uploadedParts)) = Len(formData[f].uploadedParts)
       /\ Cardinality(Range(localStorage.files[f].uploadedParts)) =
            Len(localStorage.files[f].uploadedParts)
  /\ \A r \in RunIds :
       Cardinality(Range(runs[r].uploadParts)) = Len(runs[r].uploadParts)

\* a resume that started with one completed part has retried the other
\* part after a failure and completed it
C15_Witness ==
  \E r \in RunIds, p \in PartIds :
    /\ runs[r].src = "resume"
    /\ Len(runs[r].fileInfo.uploadedParts) = 1
    /\ runs[r].part[p].st = "ok"
    /\ runs[r].part[p].fails > 0
    /\ formData[runs[r].file].present
    /\ Len(formData[runs[r].file].uploadedParts) = 2

\* C16: when every part 1..N of a file has been uploaded successfully,
\* whatever the order in which the requests of the batches completed, the
\* parts list of the finalize request is 1, 2, ..., N: ascending by part
\* number, each number once.
C16_FinalizeListSorted ==
  \A r \in RunIds :
    (/\ runs[r].pc = "finalize"
     /\ \A p \in 1..runs[r].chunks :
          runs[r].part[p].st = "ok" \/ p \in Range(runs[r].fileInfo.uploadedParts)) =>
      runs[r].uploadParts = [i \in 1..runs[r].chunks |-> i]

\* a finalize request for a file of more parts than one batch holds whose
\* parts completed in another order than ascending (the form still shows
\* the arrival order)
C16_Witness ==
  \E r \in RunIds :
    /\ runs[r].pc = "finalize"
    /\ runs[r].chunks > CONCURRENT_UPLOADS
    /\ \A p \in 1..runs[r].chunks : runs[r].part[p].st = "ok"
    /\ formData[runs[r].file].present
    /\ Len(formData[runs[r].file].uploadedParts) = runs[r].chunks
    /\ formData[runs[r].file].uploadedParts # [i \in 1..runs[r].chunks |-> i]

\* C17: for every file size and the chunk size of 5 MiB the number of parts
\* N is the least integer with N * chunk >= size (= ceil(size / chunk)), and
\* the slice of part p is [(p-1) * chunk, min(p * chunk, size)): the first
\* slice starts at 0, every slice starts where the previous one ends, is
\* not empty and at most chunk bytes long, and the last one ends at size.
C17_SlicesPartitionFile ==
  /\ \A f \in Files :
       formData[f].present =>
         LET size == formData[f].size
             n == Chunks(size)
         IN /\ n >= 0 /\ n * CHUNK_SIZE >= size
            /\ n > 0 => (n - 1) * CHUNK_SIZE < size
            /\ \A p \in 1..n :
                 /\ ChunkStart(p) = (p - 1) * CHUNK_SIZE
                 /\ ChunkEnd(p, size) = (IF p * CHUNK_SIZE < size THEN p * CHUNK_SIZE ELSE size)
  /\ \A r \in RunIds :
       (runs[r].pc \in {"uploading", "finalize"} /\ runs[r].fileInfo.file) =>
         LET size == runs[r].fileInfo.size
             n == runs[r].chunks
             part == runs[r].part
         IN /\ n * CHUNK_SIZE >= size
            /\ n > 0 => (n - 1) * CHUNK_SIZE < size
            /\ Range(runs[r].tasks) \subseteq 1..n
            /\ \A p \in Range(runs[r].tasks) :
                 /\ part[p].start = (p - 1) * CHUNK_SIZE
                 /\ part[p].start < part[p].end
                 /\ part[p].end - part[p].start <= CHUNK_SIZE
                 /\ part[p].end <= size
                 /\ p = n => part[p].end = size
                 /\ (p < n /\ p + 1 \in Range(runs[r].tasks)) =>
                      part[p].end = part[p + 1].start
                 /\ p < n => part[p].end = p * CHUNK_SIZE

\* a file of SliceParts parts whose last part is shorter than a chunk has
\* been sliced and all its parts have been uploaded
C17_Witness ==
  \E r \in RunIds :
    /\ runs[r].pc = "finalize"
    /\ runs[r].chunks = SliceParts
    /\ Len(runs[r].tasks) = SliceParts
    /\ runs[r].fileInfo.size = (SliceParts - 1) * CHUNK_SIZE + 1
    /\ runs[r].part[SliceParts].st = "ok"
    /\ runs[r].part[SliceParts].end - runs[r].part[SliceParts].start = 1

\* C18: once a file state of the form has an uploadId and a key, no step
\* that keeps the file state changes them; submitting the form again does
\* not give new identifiers to a file state that keeps its completed parts
\* and its currentPart.
C18_SessionIdsImmutable ==
  [][\A f \in Files :
       (/\ formData[f].present /\ formData'[f].present
        /\ formData[f].uploadId # 0) =>
         /\ formData'[f].uploadId = formData[f].uploadId
         /\ formData'[f].key = formData[f].key]_vars

\* C19: after every step that changes the status, the uploadId, the key,
\* the completed parts or the error of a file of the form (and does not end
\* the transfer, which removes the snapshot), the stored snapshot holds the
\* current transferId and the current file states without the File object.
C19_SnapshotFollowsState ==
  [][(/\ ~ uploadComplete'
      /\ \E f \in Files :
           /\ formData[f].present /\ formData'[f].present
           /\ \/ formData'[f].status # formData[f].status
              \/ formData'[f].uploadId # formData[f].uploadId
              \/ formData'[f].key # formData[f].key
              \/ formData'[f].uploadedParts # formData[f].uploadedParts
              \/ formData'[f].error # formData[f].error) =>
       localStorage' = [has |-> TRUE, transferId |-> transferId',
                        files |-> [f \in Files |-> SerializeFile(formData'[f])]]]_vars

\* C20: a file state restored from the stored snapshot has no File object.
\* Only the re-selection of a file whose name and size equal the persisted
\* name and size gives it one; a selection with another name or size, and a
\* cancelled selection, set the status to error and send no request; and
\* no invocation sends a part request without a File object, so nothing is
\* sent for the restored file before the matching re-selection.  (A slot of
\* runs whose invocation is done is taken again by a new invocation.)
C20_NoUploadBeforeReselection ==
  [][/\ \A f \in Files :
          (/\ formData[f].present /\ ~ formData[f].file
           /\ formData'[f].present /\ formData'[f].file) =>
            \E r \in RunIds :
              /\ runs[r].file = f
              /\ FileReselected(r, formData[f].name, formData[f].size)
     /\ \A r \in RunIds :
          /\ (/\ runs[r].pc \notin {"free", "done"}
              /\ ~ runs[r].fileInfo.file /\ runs'[r].fileInfo.file) =>
               /\ ~ formData[runs[r].file].present
                  \/ (/\ runs[r].fileInfo.name = formData[runs[r].file].name
                      /\ runs[r].fileInfo.size = formData[runs[r].file].size)
               /\ FileReselected(r, runs[r].fileInfo.name, runs[r].fileInfo.size)
          /\ (/\ runs[r].pc \in {"free", "done"} /\ runs'[r].pc \notin {"free", "done"}
              /\ runs'[r].fileInfo.file) =>
               \/ formData[runs'[r].file].file
               \/ \E k \in SubIds : subs[k].capForm[runs'[r].file].file
          /\ \A p \in PartIds :
               runs'[r].part[p].sends > runs[r].part[p].sends => runs'[r].fileInfo.file
          /\ \A name \in Names, size \in FileSizes :
               (/\ FileReselected(r, name, size)
                /\ name # runs[r].fileInfo.name \/ size # runs[r].fileInfo.size) =>
                 /\ formData[runs[r].file].present =>
                      formData'[runs[r].file].status = "error"
                 /\ \A q \in RunIds, p \in PartIds :
                      runs'[q].part[p].sends = runs[q].part[p].sends
          /\ ReselectCancelled(r) =>
               /\ formData[runs[r].file].present =>
                    formData'[runs[r].file].status = "error"
               /\ \A q \in RunIds, p \in PartIds :
                    runs'[q].part[p].sends = runs[q].part[p].sends]_vars

\* after a reload the restored file has been re-selected and a part request
\* of the resumed upload is in flight
C20_Witness ==
  /\ reloads > 0
  /\ \E r \in RunIds, p \in PartIds :
       /\ runs[r].src = "resume"
       /\ runs[r].part[p].st = "flying"
       /\ formData[runs[r].file].present
       /\ formData[runs[r].file].file
       /\ runs[r].fileInfo.error = "reselect"
       /\ formData[runs[r].file].name = localStorage.files[runs[r].file].name
       /\ formData[runs[r].file].size = localStorage.files[runs[r].file].size

\* C21: when the finalize request of a file has succeeded, in the
\* submission or in a later resume, and every invocation of the transfer
\* has settled (no request, timer or handler of it is left that could still
\* set it), the transfer is complete for the user interface: uploadComplete
\* is set.
C21_FinalizedIsComplete ==
  (/\ \E r \in RunIds : runs[r].pc = "done" /\ runs[r].result = "finalized"
   /\ \A r \in RunIds : ~ Pending(Cur, r)
   /\ \A k \in SubIds : subs[k].pc \in {"none", "done"}) =>
    uploadComplete

\* C22: the step of Cancel All leaves no part request of any file in
\* flight, no file of the form in status uploading, and no file with an
\* uploadId, a key or completed parts.
C22_CancelDiscardsSessions ==
  [][CancelAll =>
       /\ \A r \in RunIds, p \in PartIds : runs'[r].part[p].st # "flying"
       /\ \A f \in Files :
            formData'[f].present =>
              /\ formData'[f].status # "uploading"
              /\ formData'[f].uploadId = 0
              /\ formData'[f].key = 0
              /\ formData'[f].uploadedParts = <<>>]_vars

\* C23: the reply of the validate route has valid = TRUE exactly when the
\* database answered, a transfer with the id exists, its expires_at is
\* later than the current time and its status is not complete; every
\* other reply has valid = FALSE and a reason.
C23_ValidateReply ==
  [][\A t \in ServerTransfers, dbFails \in BOOLEAN :
       GetValidate(t, dbFails) =>
         /\ worker'.reply.valid <=>
              /\ ~ dbFails
              /\ worker.transfers[t].status \in {"pending", "complete"}
              /\ worker.transfers[t].expires_at > worker.now
              /\ worker.transfers[t].status # "complete"
         /\ ~ worker'.reply.valid => worker'.reply.reason # "none"]_vars

\* a transfer was validated at the very instant it expires, and the reply
\* was that it has expired
C23_Witness ==
  /\ worker.reply.transferId \in ServerTransfers
  /\ worker.transfers[worker.reply.transferId].status = "pending"
  /\ worker.transfers[worker.reply.transferId].expires_at = worker.now
  /\ ~ worker.reply.valid
  /\ worker.reply.reason = "Transfer not found or expired"

\* C24: a transfer has status complete only when the multipart upload of
\* every file of the transfer has been completed.
C24_CompleteMeansAllFiles ==
  \A t \in ServerTransfers :
    worker.transfers[t].status = "complete" =>
      \A f \in ServerFiles :
        (worker.files[f].row /\ worker.files[f].transfer_id = t) =>
          worker.files[f].upload = "completed"

\* C25: no upload-part request is in flight, and no finalize request is
\* sent, by an invocation whose uploadId or key is unassigned.
C25_RequestsHaveSessionIds ==
  \A r \in RunIds :
    (\/ runs[r].pc = "finalize"
     \/ \E p \in PartIds : runs[r].part[p].st = "flying") =>
      (runs[r].uploadId # 0 /\ runs[r].key # 0)

\* C26: for every file at most one invocation of uploadFileInChunks is
\* active, and the registry of abort controllers maps the file to the
\* controller of every invocation that is active or still has a part
\* request in flight.
C26_OneRunWithController ==
  \A f \in Files :
    /\ Cardinality({r \in RunIds : runs[r].file = f /\ Live(runs[r])}) <= 1
    /\ \A r \in RunIds :
         (/\ runs[r].pc # "free" /\ runs[r].file = f
          /\ Live(runs[r]) \/ \E p \in PartIds : runs[r].part[p].st = "flying") =>
           abortControllers[f] = r

\* C27: while a file's status is error, no event of a part request
\* (progress, success, failure, retry timer) and no finalize response
\* changes the file's status or its completed parts.
C27_ErrorIsStable ==
  [][\A r \in RunIds :
       (/\ \/ \E p \in PartIds : \/ PartProgress(r, p) \/ PartLoad(r, p)
                                 \/ PartError(r, p) \/ BackoffElapsed(r, p)
           \/ \E ok \in BOOLEAN : CompleteResponse(r, ok)
        /\ formData[runs[r].file].present
        /\ formData[runs[r].file].status = "error") =>
         /\ formData'[runs[r].file].status = "error"
         /\ formData'[runs[r].file].uploadedParts = formData[runs[r].file].uploadedParts]_vars

C29_BalanceNotNegative == worker.credits >= 0

\* C30: a run of the scheduled cleanup deletes neither the record nor the
\* stored object of a managed file whose extended_until lies after the
\* current time.
C30_CleanupSparesExtendedFiles ==
  [][Scheduled =>
       \A f \in ServerFiles :
         (/\ worker.files[f].row
          /\ worker.files[f].is_managed
          /\ worker.files[f].extended_until > worker.now) =>
             /\ worker'.files[f].row
             /\ worker'.files[f].object = worker.files[f].object]_vars

====
